---- MODULE Spec2Model ----
(***************************************************************************)
(* A model of the movies-explorer server: the pagination range builder,    *)
(* the listing routes' page and filter handling, the card mapper, the      *)
(* auth gate, the watchlist and review handlers and user registration.     *)
(*                                                                         *)
(* JavaScript values are modelled as follows.                              *)
(*   - a query-string parameter is a sequence: <<>> when the parameter is  *)
(*     absent (undefined), <<text>> when present, text being a sequence of *)
(*     one-character strings;                                              *)
(*   - a number is a record [kind, val], kind "num" or "NaN";              *)
(*     null is the record of kind "null";                                  *)
(*   - a document field is a record [t, s, a]: its typeof/Array.isArray    *)
(*     tag t, its string s, its array elements a.                          *)
(***************************************************************************)
EXTENDS Integers, Sequences, FiniteSets, TLC

VARIABLES
    op, inp, out,                 \* the listing/mapping call in hand and its result
    watchlist, reviews, nextId,   \* WatchlistItem and Review collections, next _id
    last,                         \* the last API request and its response
    users, reg,                   \* User collection, registrations in flight
    jwt, stored, cards,           \* watchlist page: token, the server's items, the cards shown
    listening, pending,           \* click listener attached, DELETE requests in flight
    spc, msg, ev, clicks          \* script position, message shown, last event, clicks so far

vars == <<op, inp, out, watchlist, reviews, nextId, last, users, reg,
         jwt, stored, cards, listening, pending, spc, msg, ev, clicks>>

pageVars == <<op, inp, out>>
apiVars  == <<watchlist, reviews, nextId, last>>
regVars  == <<users, reg>>
scriptVars == <<jwt, stored, cards, listening, pending, spc, msg, ev, clicks>>

-----------------------------------------------------------------------------
(* Bounds of the model *)

MaxPage  == 8     \* largest totalPages handed to buildPagination
MaxCount == 61    \* largest number of matching movies
MaxArr   == 4     \* longest genres array
MaxDocs  == 2     \* documents created in the watchlist and review collections
MaxRegs  == 3     \* POST /auth/register requests
MaxCards == 2     \* items of the watchlist the page loads
MaxClicks == 3    \* clicks inside the list

-----------------------------------------------------------------------------
(* Numbers and strings of JavaScript *)

Max(a, b) == IF a >= b THEN a ELSE b
Min(a, b) == IF a <= b THEN a ELSE b

Num(n)  == [kind |-> "num", val |-> n]
NaN     == [kind |-> "NaN", val |-> 0]
Null    == [kind |-> "null", val |-> 0]

Digits == <<"0", "1", "2", "3", "4", "5", "6", "7", "8", "9">>
IsDigit(c) == \E i \in 1..10 : Digits[i] = c
DigitVal(c) == (CHOOSE i \in 1..10 : Digits[i] = c) - 1
IsSpace(c) == c = " "

RECURSIVE SkipSpaces(_)
SkipSpaces(t) ==
    IF t # <<>> /\ IsSpace(Head(t)) THEN SkipSpaces(Tail(t)) ELSE t

RECURSIVE DropTrailingSpaces(_)
DropTrailingSpaces(t) ==
    IF t # <<>> /\ IsSpace(t[Len(t)])
    THEN DropTrailingSpaces(SubSeq(t, 1, Len(t) - 1))
    ELSE t

\* the value of the longest prefix of digits of t, acc being the value so far
RECURSIVE LeadingDigits(_, _)
LeadingDigits(t, acc) ==
    IF t # <<>> /\ IsDigit(Head(t))
    THEN LeadingDigits(Tail(t), 10 * acc + DigitVal(Head(t)))
    ELSE acc

AllDigits(t) == \A i \in 1..Len(t) : IsDigit(t[i])

\* parseInt(p): leading white space is skipped, then an optional sign and the
\* longest prefix of digits are read; anything after it is ignored; NaN when
\* there is no digit (and for undefined).
parseInt(p) ==
    IF p = <<>> THEN NaN
    ELSE LET t    == SkipSpaces(p[1])
             neg  == t # <<>> /\ Head(t) = "-"
             body == IF neg THEN Tail(t) ELSE t
         IN  IF body = <<>> \/ ~IsDigit(Head(body)) THEN NaN
             ELSE Num((IF neg THEN -1 ELSE 1) * LeadingDigits(body, 0))

\* Number(text): the whole trimmed text must be a numeral; the empty (or
\* all-space) text is 0; anything else is NaN.
Number(text) ==
    LET t    == DropTrailingSpaces(SkipSpaces(text))
        neg  == t # <<>> /\ Head(t) = "-"
        body == IF neg THEN Tail(t) ELSE t
    IN  IF t = <<>> THEN Num(0)
        ELSE IF body # <<>> /\ AllDigits(body)
             THEN Num((IF neg THEN -1 ELSE 1) * LeadingDigits(body, 0))
             ELSE NaN

\* truthiness of a query parameter: undefined and '' are falsy
Truthy(p) == p # <<>> /\ p[1] # <<>>

\* p || ''
OrEmpty(p) == IF Truthy(p) THEN p[1] ELSE <<>>

\* Math.ceil(a / b) for a >= 0, b > 0
Ceil(a, b) == (a + b - 1) \div b

-----------------------------------------------------------------------------
(* controllers/movieController.js: buildPagination *)

maxButtons == 5

\* the loop "for (i = start; i <= end; i++) pages.push(...)"
RECURSIVE PushPages(_, _, _, _)
PushPages(i, end, currentPage, pages) ==
    IF i <= end
    THEN PushPages(i + 1, end, currentPage,
                   Append(pages, [number |-> i, isCurrent |-> i = currentPage]))
    ELSE pages

\* faulty variant: the start is not shifted left when the window is cut at the end
buildPagination_noShift(currentPage, totalPages) ==
    LET start == Max(1, currentPage - (maxButtons \div 2))
        end   == Min(totalPages, start + maxButtons - 1)
    IN  PushPages(start, end, currentPage, <<>>)

\* faulty variant: the window's end is one too far
buildPagination_longEnd(currentPage, totalPages) ==
    LET start0 == Max(1, currentPage - (maxButtons \div 2))
        end    == Min(totalPages, start0 + maxButtons)
        start  == IF end - start0 < maxButtons - 1
                  THEN Max(1, end - maxButtons + 1)
                  ELSE start0
    IN  PushPages(start, end, currentPage, <<>>)

buildPagination(currentPage, totalPages) ==
    LET start0 == Max(1, currentPage - (maxButtons \div 2))
        end    == Min(totalPages, start0 + maxButtons - 1)
        start  == IF end - start0 < maxButtons - 1
                  THEN Max(1, end - maxButtons + 1)
                  ELSE start0
    IN  PushPages(start, end, currentPage, <<>>)

-----------------------------------------------------------------------------
(* server.js: the filters of GET /movies and GET /api/movies *)

PageLimit      == 30
ControllerLimit == 20
DefaultPerPage == 10

NoText == <<>>

\* one entry of andConditions
TitleCond(text)  == [field |-> "title",        oper |-> "$regex/i", text |-> text,   num |-> Null]
GenreCond(text)  == [field |-> "genres.name",  oper |-> "$regex/i", text |-> text,   num |-> Null]
RatingCond(n)    == [field |-> "vote_average", oper |-> "$gte",     text |-> NoText, num |-> n]

\* "if (c) andConditions.push(x)"
PushIf(c, conds, x) == IF c THEN Append(conds, x) ELSE conds

\* "if (andConditions.length > 0) baseFilter.$and = andConditions"
WithAnd(poster, conds) ==
    [poster_url |-> poster, hasAnd |-> Len(conds) > 0, and |-> conds]

\* req.query.minRating ? Number(req.query.minRating) : null
MinRating(p) == IF Truthy(p) THEN Number(p[1]) ELSE Null

\* GET /movies
PageFilter(q, genre, minRatingParam) ==
    LET query       == OrEmpty(q)
        genreFilter == OrEmpty(genre)
        minRating   == MinRating(minRatingParam)
        c1 == PushIf(query # <<>>, <<>>, TitleCond(query))
        c2 == PushIf(genreFilter # <<>>, c1, GenreCond(genreFilter))
        c3 == PushIf(minRating.kind # "null" /\ minRating.kind # "NaN", c2,
                     RatingCond(minRating))
    IN  WithAnd("string, not empty", c3)

\* GET /api/movies
ApiFilter(q, genre, minRatingParam) ==
    LET qq          == OrEmpty(q)
        genreFilter == OrEmpty(genre)
        minRating   == MinRating(minRatingParam)
        c1 == PushIf(qq # <<>>, <<>>, TitleCond(qq))
        c2 == PushIf(genreFilter # <<>>, c1, GenreCond(genreFilter))
        c3 == PushIf(minRating.kind # "null", c2, RatingCond(minRating))
    IN  WithAnd("string, https://image.tmdb.org prefix", c3)

\* parseInt(p) > 0 ? parseInt(p) : 1
PositiveOr(p, dflt) ==
    LET n == parseInt(p)
    IN  IF n.kind = "num" /\ n.val > 0 THEN n.val ELSE dflt

\* the number of documents find().skip(skip).limit(limit) returns out of count
Slice(count, skip, limit) == Max(0, Min(limit, count - skip))

-----------------------------------------------------------------------------
(* The inputs of the listing routes *)

PageParams ==
    { <<>>, << <<>> >>, << <<"a", "b">> >>, << <<"0">> >>, << <<"-", "1">> >>,
      << <<"1">> >>, << <<"2">> >>, << <<"3">> >>, << <<"5">> >>,
      << <<"2", ".", "9">> >>, << <<" ", "2">> >>, << <<"3", "a">> >> }

PerPageParams == { <<>>, << <<"2", "0">> >>, << <<"0">> >> }

QParams      == { <<>>, << <<>> >>, << <<"b", "a", "t">> >> }
GenreParams  == { <<>>, << <<"d", "r", "a">> >> }
RatingParams == { <<>>, << <<>> >>, << <<"a", "b", "c">> >>, << <<"7">> >>, << <<" ">> >> }

Counts == 0..MaxCount

-----------------------------------------------------------------------------
(* server.js: GET /movies *)

GetMoviesResult(pageParam, q, genre, minRatingParam, totalCount) ==
    LET page       == PositiveOr(pageParam, 1)
        limit      == PageLimit
        skip       == (page - 1) * limit
        baseFilter == PageFilter(q, genre, minRatingParam)
        totalPages == Ceil(totalCount, limit)
    IN  [status      |-> 200,
         filter      |-> baseFilter,
         skip        |-> skip,
         returned    |-> Slice(totalCount, skip, limit),
         totalMovies |-> totalCount,
         currentPage |-> page,
         totalPages  |-> totalPages,
         hasPrevPage |-> page > 1,
         hasNextPage |-> page < totalPages,
         prevPage    |-> IF page > 1 THEN page - 1 ELSE 1,
         nextPage    |-> IF page < totalPages THEN page + 1 ELSE totalPages]

ListingInput(pageParam, perPageParam, q, genre, minRatingParam, count, fails) ==
    [page |-> pageParam, perPage |-> perPageParam, q |-> q, genre |-> genre,
     minRating |-> minRatingParam, count |-> count, storeFails |-> fails]

GetMovies ==
    /\ op = "none"
    /\ \E pageParam \in PageParams, q \in QParams, genre \in GenreParams,
       minRatingParam \in RatingParams, totalCount \in Counts, fails \in BOOLEAN :
        /\ fails => totalCount = 0
        /\ op' = "GET /movies"
        /\ inp' = ListingInput(pageParam, <<>>, q, genre, minRatingParam, totalCount, fails)
        /\ out' = IF fails
                  THEN [status |-> 500]
                  ELSE GetMoviesResult(pageParam, q, genre, minRatingParam, totalCount)
        /\ UNCHANGED <<apiVars, regVars, scriptVars>>

-----------------------------------------------------------------------------
(* server.js: GET /api/movies *)

ApiMoviesResult(pageParam, perPageParam, q, genre, minRatingParam, totalCount) ==
    LET page       == PositiveOr(pageParam, 1)
        perPage    == PositiveOr(perPageParam, DefaultPerPage)
        skip       == (page - 1) * perPage
        baseFilter == ApiFilter(q, genre, minRatingParam)
        totalPages == Ceil(totalCount, perPage)
    IN  [status     |-> 200,
         filter     |-> baseFilter,
         skip       |-> skip,
         returned   |-> Slice(totalCount, skip, perPage),
         page       |-> page,
         perPage    |-> perPage,
         totalPages |-> totalPages,
         totalCount |-> totalCount]

ApiGetMovies ==
    /\ op = "none"
    /\ \E pageParam \in PageParams, perPageParam \in PerPageParams, q \in QParams,
       genre \in GenreParams, minRatingParam \in RatingParams,
       totalCount \in Counts, fails \in BOOLEAN :
        /\ fails => totalCount = 0
        /\ op' = "GET /api/movies"
        /\ inp' = ListingInput(pageParam, perPageParam, q, genre, minRatingParam,
                               totalCount, fails)
        /\ out' = IF fails
                  THEN [status |-> 500]
                  ELSE ApiMoviesResult(pageParam, perPageParam, q, genre,
                                       minRatingParam, totalCount)
        /\ UNCHANGED <<apiVars, regVars, scriptVars>>

-----------------------------------------------------------------------------
(* controllers/movieController.js: getPaginatedMovies *)

\* parseInt(p) || 1: NaN and 0 are falsy
ParseIntOr(p, dflt) ==
    LET n == parseInt(p)
    IN  IF n.kind = "num" /\ n.val # 0 THEN n.val ELSE dflt

\* The store rejects a negative skip, which the handler's catch answers.
PaginatedMoviesResult(pageParam, totalMovies) ==
    LET page0      == ParseIntOr(pageParam, 1)
        limit      == ControllerLimit
        totalPages == Ceil(totalMovies, limit)
        page1      == IF page0 < 1 THEN 1 ELSE page0
        page       == IF page1 > totalPages THEN totalPages ELSE page1
        skip       == (page - 1) * limit
    IN  [status      |-> IF skip < 0 THEN 500 ELSE 200,
         skip        |-> skip,
         returned    |-> IF skip < 0 THEN 0 ELSE Slice(totalMovies, skip, limit),
         currentPage |-> page,
         totalPages  |-> totalPages,
         pagination  |-> IF skip < 0 THEN <<>> ELSE buildPagination(page, totalPages)]

GetPaginatedMovies ==
    /\ op = "none"
    /\ \E pageParam \in PageParams, totalMovies \in Counts, fails \in BOOLEAN :
        /\ fails => totalMovies = 0
        /\ op' = "getPaginatedMovies"
        /\ inp' = ListingInput(pageParam, <<>>, <<>>, <<>>, <<>>, totalMovies, fails)
        /\ out' = IF fails
                  THEN [status |-> 500]
                  ELSE PaginatedMoviesResult(pageParam, totalMovies)
        /\ UNCHANGED <<apiVars, regVars, scriptVars>>

\* buildPagination called on its own
CallBuildPagination ==
    /\ op = "none"
    /\ \E currentPage \in 0..(MaxPage + 1), totalPages \in 0..MaxPage :
        /\ op' = "buildPagination"
        /\ inp' = [currentPage |-> currentPage, totalPages |-> totalPages]
        /\ out' = buildPagination(currentPage, totalPages)
        /\ UNCHANGED <<apiVars, regVars, scriptVars>>

-----------------------------------------------------------------------------
(* server.js: mapMovieForCard *)

\* a field of a movie document
Field(t, str, arr) == [t |-> t, s |-> str, a |-> arr]
Undefined == Field("undefined", "", <<>>)
JNull     == Field("null", "", <<>>)
JNumber   == Field("number", "", <<>>)
JObject   == Field("object", "", <<>>)
JStr(str) == Field("string", str, <<>>)
JArr(arr) == Field("array", "", arr)

\* an element of an array field: a string, null, or an object whose name is
\* a string or undefined
ElemStr(str)  == [t |-> "string", s |-> str, nameT |-> "undefined", name |-> ""]
ElemNull      == [t |-> "null",   s |-> "",  nameT |-> "undefined", name |-> ""]
ElemObj(str)  == [t |-> "object", s |-> "",  nameT |-> "string",    name |-> str]
ElemNoName    == [t |-> "object", s |-> "",  nameT |-> "undefined", name |-> ""]

\* a value of the name pipeline: a string or undefined
Val(t, str) == [t |-> t, s |-> str]

\* g => (typeof g === 'string' ? g : g?.name)
NameOf(g) ==
    IF g.t = "string" THEN Val("string", g.s)
    ELSE IF g.t = "object" THEN Val(g.nameT, IF g.nameT = "string" THEN g.name ELSE "")
    ELSE Val("undefined", "")

\* Boolean(v): undefined and '' are falsy
ToBoolean(v) == v.t = "string" /\ v.s # ""

MapNames(arr) == [i \in 1..Len(arr) |-> NameOf(arr[i])]

RECURSIVE FilterBoolean(_)
FilterBoolean(vals) ==
    IF vals = <<>> THEN <<>>
    ELSE IF ToBoolean(Head(vals))
         THEN <<Head(vals)>> \o FilterBoolean(Tail(vals))
         ELSE FilterBoolean(Tail(vals))

\* .slice(0, n)
SliceTo(vals, n) == SubSeq(vals, 1, Min(n, Len(vals)))

\* .join(sep)
RECURSIVE Join(_, _)
Join(vals, sep) ==
    IF vals = <<>> THEN ""
    ELSE IF Len(vals) = 1 THEN Head(vals).s
    ELSE Head(vals).s \o sep \o Join(Tail(vals), sep)

GenreSep   == " . "    \* stands for the bullet separator of the source
CountrySep == ", "
CardGenres    == 3
CardCountries == 2

\* faulty variant: the slice is taken before the empty names are filtered out
NamesText_sliceFirst(field, n, sep) ==
    IF field.t = "array"
    THEN Join(FilterBoolean(SliceTo(MapNames(field.a), n)), sep)
    ELSE IF field.t = "string" THEN field.s ELSE ""

\* Array.isArray(x) ? x.map(..).filter(Boolean).slice(0, n).join(sep)
\*                  : (typeof x === 'string' ? x : '')
NamesText(field, n, sep) ==
    IF field.t = "array"
    THEN Join(SliceTo(FilterBoolean(MapNames(field.a)), n), sep)
    ELSE IF field.t = "string" THEN field.s ELSE ""

\* typeof x === 'string' ? x : ''
StringOrEmpty(field) == IF field.t = "string" THEN field.s ELSE ""

\* the fields of the card that come from title, genres, production_countries
\* and poster_url
mapMovieForCard(movie) ==
    LET safeTitle == IF movie.title.t = "string" THEN movie.title.s
                     ELSE StringOrEmpty(movie.original_title)
    IN  [title       |-> safeTitle,
         poster_url  |-> StringOrEmpty(movie.poster_url),
         genresText  |-> NamesText(movie.genres, CardGenres, GenreSep),
         countryText |-> NamesText(movie.production_countries, CardCountries, CountrySep)]

Elems == { ElemStr("Action"), ElemObj("Drama"), ElemObj(""), ElemNoName, ElemNull }

ArraysOf(S, n) == UNION { [1..k -> S] : k \in 0..n }

GenreFields ==
    { Undefined, JNull, JNumber, JObject, JStr("Drama"), JStr("") }
    \cup { JArr(a) : a \in ArraysOf(Elems, MaxArr) }

CountryFields ==
    { Undefined, JStr("USA"),
      JArr(<<ElemObj("USA"), ElemNoName, ElemObj("UK"), ElemObj("France")>>) }

Titles == { <<JStr("Alien"), Undefined>>, <<Undefined, JStr("Alien 0")>>,
            <<JNumber, JNull>> }

Movies ==
    { [title |-> t[1], original_title |-> t[2], genres |-> g,
       production_countries |-> c, poster_url |-> JStr("p.jpg")] :
      t \in Titles, g \in GenreFields, c \in CountryFields }

CallMapMovieForCard ==
    /\ op = "none"
    /\ \E movie \in Movies :
        /\ op' = "mapMovieForCard"
        /\ inp' = movie
        /\ out' = mapMovieForCard(movie)
        /\ UNCHANGED <<apiVars, regVars, scriptVars>>

-----------------------------------------------------------------------------
(* middleware/auth.js: auth *)

\* A token is what jwt.sign made of an identity, or something else: sig tells
\* whether jwt.verify accepts it ("valid") or throws ("forged", "expired").
\* The empty token is the empty string.
Token(sig, id, role) == [sig |-> sig, id |-> id, role |-> role]
EmptyToken == Token("", "", "")

\* The Authorization header: the text before the credential and the credential.
\* No header at all reads as ''.
Header(prefix, token) == [prefix |-> prefix, rest |-> token]
NoHeader == Header("", EmptyToken)

NoUser == [id |-> "", role |-> ""]
NoRole == ""     \* requiredRole = null

\* header.startsWith('Bearer ') ? header.slice(7) : null
BearerToken(header) ==
    IF header.prefix = "Bearer " THEN header.rest ELSE EmptyToken

\* jwt.verify(token, secret): the decoded payload, or a throw
Verifies(token) == token.sig = "valid"
Decoded(token) == [id |-> token.id, role |-> token.role]

\* what the gate did: the status it answered (0 when it answered nothing),
\* req.user, whether next() was called, the number of responses sent
Gate(status, user, next) ==
    [status |-> status, user |-> user, next |-> next,
     sent |-> IF status = 0 THEN 0 ELSE 1]

\* faulty variant: the required role is never compared
auth_noRoleCheck(requiredRole, header) ==
    LET token == BearerToken(header)
    IN  IF token = EmptyToken THEN Gate(401, NoUser, FALSE)
        ELSE IF ~Verifies(token) THEN Gate(401, NoUser, FALSE)
        ELSE Gate(0, Decoded(token), TRUE)

auth(requiredRole, header) ==
    LET token == BearerToken(header)
    IN  IF token = EmptyToken THEN Gate(401, NoUser, FALSE)
        ELSE IF ~Verifies(token) THEN Gate(401, NoUser, FALSE)
        ELSE IF requiredRole # NoRole /\ Decoded(token).role # requiredRole
             THEN Gate(403, Decoded(token), FALSE)
             ELSE Gate(0, Decoded(token), TRUE)

Tokens ==
    { EmptyToken, Token("valid", "u1", "user"), Token("valid", "u2", "user"),
      Token("valid", "u1", "admin"), Token("forged", "u1", "admin"),
      Token("expired", "u2", "user") }

Headers ==
    { NoHeader } \cup { Header("Bearer ", t) : t \in Tokens }
    \cup { Header("Basic ", Token("valid", "u1", "user")),
           Header("bearer ", Token("valid", "u1", "admin")) }

RequiredRoles == { NoRole, "user", "admin" }

\* a route behind auth(requiredRole): the gate, then the handler if next() ran
CallAuth ==
    /\ op = "none"
    /\ \E header \in Headers, requiredRole \in RequiredRoles :
        /\ op' = "auth"
        /\ inp' = [header |-> header, requiredRole |-> requiredRole]
        /\ out' = auth(requiredRole, header)
        /\ UNCHANGED <<apiVars, regVars, scriptVars>>

-----------------------------------------------------------------------------
(* The listing and mapping calls *)

NoRequest == [op |-> "none"]

InitPages ==
    /\ op = "none"
    /\ inp = <<>>
    /\ out = <<>>
    /\ watchlist = {}
    /\ reviews = {}
    /\ nextId = 1
    /\ last = NoRequest
    /\ users = {}
    /\ reg = <<>>
    /\ jwt = FALSE
    /\ stored = {}
    /\ cards = <<>>
    /\ listening = FALSE
    /\ pending = {}
    /\ spc = "start"
    /\ msg = "none"
    /\ ev = [kind |-> "none"]
    /\ clicks = 0

\* the result has been handed over; the next call can be made
Return ==
    /\ op # "none"
    /\ op' = "none"
    /\ inp' = <<>>
    /\ out' = <<>>
    /\ UNCHANGED <<apiVars, regVars, scriptVars>>

NextPages ==
    \/ CallBuildPagination
    \/ GetPaginatedMovies
    \/ GetMovies
    \/ ApiGetMovies
    \/ CallMapMovieForCard
    \/ CallAuth
    \/ Return

SpecPages == InitPages /\ [][NextPages]_vars

-----------------------------------------------------------------------------
(* server.js: the watchlist and review routes *)

\* a field of a JSON body: <<>> when absent, <<value>> when present
Present(f) == f # <<>>
RequiredString(f) == f # <<>> /\ f[1] # ""

\* models/watchlistItem: user, movieId, movieTitle and poster_url are required
WatchlistItemValid(body) ==
    /\ Present(body.movieId)
    /\ RequiredString(body.movieTitle)
    /\ RequiredString(body.poster_url)

NewWatchlistItem(id, user, body) ==
    [_id |-> id, user |-> user, movieId |-> body.movieId[1],
     movieTitle |-> body.movieTitle[1], poster_url |-> body.poster_url[1]]

NewReview(id, user, movieId, rating) ==
    [_id |-> id, user |-> user, movieId |-> movieId, rating |-> rating]

\* faulty variant: find() without the user condition
FindByUser_everyone(coll, user) == coll

\* Model.find({ user })
FindByUser(coll, user) == { d \in coll : d.user = user }

\* faulty variant: the filter of update and delete without the user condition
MatchIdUser_idOnly(coll, id, user) == { d \in coll : d._id = id }

\* the documents the filter { _id: id, user } matches
MatchIdUser(coll, id, user) == { d \in coll : d._id = id /\ d.user = user }

\* Review.find({ movieId })
FindByMovie(coll, movieId) == { d \in coll : d.movieId = movieId }

\* A malformed :id cannot be cast to an ObjectId: the query throws before it
\* reaches the store, as save() does for a document that fails validation.
MalformedId == 0
IdParams == 0..MaxDocs

\* the request and the response of a handler behind auth()
\* (threw: the handler's catch ran; storeFailed: because the store operation
\* failed, not because of the request's data)
Response(opName, header, id, gate, status, body, threw, storeFailed) ==
    [op |-> opName, header |-> header, id |-> id,
     caller |-> gate.user.id, next |-> gate.next,
     status |-> status, body |-> body, threw |-> threw,
     storeFailed |-> storeFailed, sent |-> 1]

\* the gate answered and next() was not called
Denied(opName, header, id, gate) ==
    Response(opName, header, id, gate, gate.status, {}, FALSE, FALSE)

ApiHeaders ==
    { NoHeader, Header("Bearer ", Token("forged", "u1", "user")),
      Header("Bearer ", Token("valid", "u1", "user")),
      Header("Bearer ", Token("valid", "u2", "user")) }

WatchlistBodies ==
    { [movieId |-> <<603>>, movieTitle |-> <<"Alien">>, poster_url |-> <<"p.jpg">>],
      [movieId |-> <<603>>, movieTitle |-> <<"Alien">>, poster_url |-> <<>>] }

MovieIds == { 603 }
Ratings  == { 1, 5 }

\* POST /api/watchlist
PostWatchlist ==
    /\ nextId <= MaxDocs
    /\ \E header \in ApiHeaders, body \in WatchlistBodies, fails \in BOOLEAN :
        LET gate  == auth(NoRole, header)
            item  == NewWatchlistItem(nextId, gate.user.id, body)
            threw == fails \/ ~WatchlistItemValid(body)
        IN  /\ fails => (gate.next /\ WatchlistItemValid(body))
            /\ IF ~gate.next
               THEN /\ last' = Denied("POST /api/watchlist", header, 0, gate)
                    /\ UNCHANGED <<watchlist, nextId>>
               ELSE IF threw
               THEN /\ last' = Response("POST /api/watchlist", header, 0, gate,
                                        400, {}, TRUE, fails)
                    /\ UNCHANGED <<watchlist, nextId>>
               ELSE /\ watchlist' = watchlist \cup {item}
                    /\ nextId' = nextId + 1
                    /\ last' = Response("POST /api/watchlist", header, 0, gate,
                                        201, {item}, FALSE, FALSE)
            /\ UNCHANGED <<reviews, pageVars, regVars, scriptVars>>

\* GET /api/watchlist
GetWatchlist ==
    \E header \in ApiHeaders, fails \in BOOLEAN :
        LET gate  == auth(NoRole, header)
            items == FindByUser(watchlist, gate.user.id)
        IN  /\ fails => gate.next
            /\ last' = IF ~gate.next
                       THEN Denied("GET /api/watchlist", header, 0, gate)
                       ELSE IF fails
                       THEN Response("GET /api/watchlist", header, 0, gate, 500, {}, TRUE, fails)
                       ELSE Response("GET /api/watchlist", header, 0, gate, 200, items, FALSE, FALSE)
            /\ UNCHANGED <<watchlist, reviews, nextId, pageVars, regVars, scriptVars>>

\* DELETE /api/watchlist/:id
DeleteWatchlist ==
    \E header \in ApiHeaders, id \in IdParams, fails \in BOOLEAN :
        LET gate    == auth(NoRole, header)
            matched == MatchIdUser(watchlist, id, gate.user.id)
            threw   == fails \/ id = MalformedId
        IN  /\ fails => (gate.next /\ id # MalformedId)
            /\ IF ~gate.next
               THEN /\ last' = Denied("DELETE /api/watchlist/:id", header, id, gate)
                    /\ UNCHANGED watchlist
               ELSE IF threw
               THEN /\ last' = Response("DELETE /api/watchlist/:id", header, id, gate,
                                        500, {}, TRUE, fails)
                    /\ UNCHANGED watchlist
               ELSE IF Cardinality(matched) = 0
               THEN /\ last' = Response("DELETE /api/watchlist/:id", header, id, gate,
                                        404, {}, FALSE, FALSE)
                    /\ UNCHANGED watchlist
               ELSE /\ watchlist' = watchlist \ matched
                    /\ last' = Response("DELETE /api/watchlist/:id", header, id, gate,
                                        200, {}, FALSE, FALSE)
            /\ UNCHANGED <<reviews, nextId, pageVars, regVars, scriptVars>>

\* POST /api/movies/:id/reviews; fails stands for a rejected save, be it the
\* validation of the review or the store
PostReview ==
    /\ nextId <= MaxDocs
    /\ \E header \in ApiHeaders, movieId \in MovieIds, rating \in Ratings,
          fails \in BOOLEAN :
        LET gate   == auth(NoRole, header)
            review == NewReview(nextId, gate.user.id, movieId, rating)
        IN  /\ fails => gate.next
            /\ IF ~gate.next
               THEN /\ last' = Denied("POST /api/movies/:id/reviews", header, 0, gate)
                    /\ UNCHANGED <<reviews, nextId>>
               ELSE IF fails
               THEN /\ last' = Response("POST /api/movies/:id/reviews", header, 0, gate,
                                        400, {}, TRUE, fails)
                    /\ UNCHANGED <<reviews, nextId>>
               ELSE /\ reviews' = reviews \cup {review}
                    /\ nextId' = nextId + 1
                    /\ last' = Response("POST /api/movies/:id/reviews", header, 0, gate,
                                        201, {review}, FALSE, FALSE)
            /\ UNCHANGED <<watchlist, pageVars, regVars, scriptVars>>

\* GET /api/movies/:id/reviews: no gate in front of it
GetReviews ==
    \E movieId \in MovieIds, fails \in BOOLEAN :
        LET open == Gate(0, NoUser, TRUE)
        IN  /\ last' = IF fails
                       THEN Response("GET /api/movies/:id/reviews", NoHeader, 0, open,
                                     500, {}, TRUE, fails)
                       ELSE Response("GET /api/movies/:id/reviews", NoHeader, 0, open,
                                     200, FindByMovie(reviews, movieId), FALSE, FALSE)
            /\ UNCHANGED <<watchlist, reviews, nextId, pageVars, regVars, scriptVars>>

\* PUT /api/reviews/:id
PutReview ==
    \E header \in ApiHeaders, id \in IdParams, rating \in Ratings, fails \in BOOLEAN :
        LET gate    == auth(NoRole, header)
            matched == MatchIdUser(reviews, id, gate.user.id)
            updated == { [d EXCEPT !.rating = rating] : d \in matched }
            threw   == fails \/ id = MalformedId
        IN  /\ fails => (gate.next /\ id # MalformedId)
            /\ IF ~gate.next
               THEN /\ last' = Denied("PUT /api/reviews/:id", header, id, gate)
                    /\ UNCHANGED reviews
               ELSE IF threw
               THEN /\ last' = Response("PUT /api/reviews/:id", header, id, gate,
                                        400, {}, TRUE, fails)
                    /\ UNCHANGED reviews
               ELSE IF matched = {}
               THEN /\ last' = Response("PUT /api/reviews/:id", header, id, gate,
                                        404, {}, FALSE, FALSE)
                    /\ UNCHANGED reviews
               ELSE /\ reviews' = (reviews \ matched) \cup updated
                    /\ last' = Response("PUT /api/reviews/:id", header, id, gate,
                                        200, updated, FALSE, FALSE)
            /\ UNCHANGED <<watchlist, nextId, pageVars, regVars, scriptVars>>

\* DELETE /api/reviews/:id
DeleteReview ==
    \E header \in ApiHeaders, id \in IdParams, fails \in BOOLEAN :
        LET gate    == auth(NoRole, header)
            matched == MatchIdUser(reviews, id, gate.user.id)
            threw   == fails \/ id = MalformedId
        IN  /\ fails => (gate.next /\ id # MalformedId)
            /\ IF ~gate.next
               THEN /\ last' = Denied("DELETE /api/reviews/:id", header, id, gate)
                    /\ UNCHANGED reviews
               ELSE IF threw
               THEN /\ last' = Response("DELETE /api/reviews/:id", header, id, gate,
                                        500, {}, TRUE, fails)
                    /\ UNCHANGED reviews
               ELSE IF Cardinality(matched) = 0
               THEN /\ last' = Response("DELETE /api/reviews/:id", header, id, gate,
                                        404, {}, FALSE, FALSE)
                    /\ UNCHANGED reviews
               ELSE /\ reviews' = reviews \ matched
                    /\ last' = Response("DELETE /api/reviews/:id", header, id, gate,
                                        200, {}, FALSE, FALSE)
            /\ UNCHANGED <<watchlist, nextId, pageVars, regVars, scriptVars>>

InitApi ==
    /\ op = "none"
    /\ inp = <<>>
    /\ out = <<>>
    /\ watchlist = {}
    /\ reviews = {}
    /\ nextId = 1
    /\ last = NoRequest
    /\ users = {}
    /\ reg = <<>>
    /\ jwt = FALSE
    /\ stored = {}
    /\ cards = <<>>
    /\ listening = FALSE
    /\ pending = {}
    /\ spc = "start"
    /\ msg = "none"
    /\ ev = [kind |-> "none"]
    /\ clicks = 0

NextApi ==
    \/ PostWatchlist
    \/ GetWatchlist
    \/ DeleteWatchlist
    \/ PostReview
    \/ GetReviews
    \/ PutReview
    \/ DeleteReview

SpecApi == InitApi /\ [][NextApi]_vars

-----------------------------------------------------------------------------
(* server.js: POST /auth/register *)

\* Each request is a process: it validates the body and looks the email up
\* (await User.findOne), and later, on its own, saves the user (await
\* user.save). Other requests run between the two awaits.

Requests == 1..MaxRegs
Emails == { "a@x.org", "b@x.org" }
BodyEmails == Emails \cup { "" }
Passwords == { "", "secret" }

\* A request: where it stands, its email, its answer, and for the record
\* whether the body was complete, whether the email was registered when the
\* answer was given, whether it created a user, whether the store failed it.
Request(pc, email, status, error, complete, taken, created, storeFailed) ==
    [pc |-> pc, email |-> email, status |-> status, error |-> error,
     complete |-> complete, taken |-> taken, created |-> created,
     storeFailed |-> storeFailed]

Idle == Request("idle", "", 0, "", FALSE, FALSE, FALSE, FALSE)

Saving(email) == Request("saving", email, 0, "", TRUE, FALSE, FALSE, FALSE)

Answered(email, status, error, complete, taken, created, storeFailed) ==
    Request("done", email, status, error, complete, taken, created, storeFailed)

\* User.findOne({ email })
FindByEmail(coll, email) == { u \in coll : u.email = email }

\* The unique index on User.email: an insert of an email that a stored user
\* has is rejected with a duplicate-key error.
EmailIndexRejects(coll, email) == \E u \in coll : u.email = email

\* lines 140-150: the body is checked and the email looked up
RegisterLookup(r) ==
    /\ reg[r].pc = "idle"
    /\ \E email \in BodyEmails, password \in Passwords, fails \in BOOLEAN :
        LET existing == FindByEmail(users, email)
        IN  /\ fails => (email # "" /\ password # "")
            /\ reg' = [reg EXCEPT ![r] =
                   IF email = "" \/ password = ""
                   THEN Answered(email, 400, "Email and password are required",
                                 FALSE, existing # {}, FALSE, FALSE)
                   ELSE IF fails
                   THEN Answered(email, 500, "Server error",
                                 TRUE, existing # {}, FALSE, TRUE)
                   ELSE IF existing # {}
                   THEN Answered(email, 400, "User already exists",
                                 TRUE, TRUE, FALSE, FALSE)
                   ELSE Saving(email)]
            /\ UNCHANGED <<users, pageVars, apiVars, scriptVars>>

\* lines 151-158: the user is saved and the request answered
RegisterSave(r) ==
    /\ reg[r].pc = "saving"
    /\ \E fails \in BOOLEAN :
        LET email == reg[r].email
            taken == FindByEmail(users, email) # {}
        IN  IF fails
            THEN /\ reg' = [reg EXCEPT ![r] =
                        Answered(email, 500, "Server error", TRUE, taken, FALSE, TRUE)]
                 /\ UNCHANGED users
            ELSE IF EmailIndexRejects(users, email)
            THEN /\ reg' = [reg EXCEPT ![r] =
                        Answered(email, 500, "Server error", TRUE, taken, FALSE, FALSE)]
                 /\ UNCHANGED users
            ELSE /\ users' = users \cup { [_id |-> r, email |-> email] }
                 /\ reg' = [reg EXCEPT ![r] =
                        Answered(email, 201, "", TRUE, taken, TRUE, FALSE)]
    /\ UNCHANGED <<pageVars, apiVars, scriptVars>>

InitReg ==
    /\ op = "none"
    /\ inp = <<>>
    /\ out = <<>>
    /\ watchlist = {}
    /\ reviews = {}
    /\ nextId = 1
    /\ last = NoRequest
    /\ users = {}
    /\ reg = [r \in Requests |-> Idle]
    /\ jwt = FALSE
    /\ stored = {}
    /\ cards = <<>>
    /\ listening = FALSE
    /\ pending = {}
    /\ spc = "start"
    /\ msg = "none"
    /\ ev = [kind |-> "none"]
    /\ clicks = 0

NextReg ==
    \E r \in Requests :
        \/ RegisterLookup(r)
        \/ RegisterSave(r)

SpecReg == InitReg /\ [][NextReg]_vars

-----------------------------------------------------------------------------
(* public/js/watchlist.js: the watchlist page script *)

\* The page holds: jwt, whether localStorage has a token; stored, the ids of
\* the user's items on the server; cards, the ids of the cards in
\* #watchlist-root, in order; listening, whether the click listener is on the
\* root; pending, the ids whose DELETE is awaiting its response.

ItemIds == 1..MaxCards

\* the ids 1..n in order: the items GET /api/watchlist returns
ItemsUpTo(n) == [i \in 1..n |-> i]

Range(seq) == { seq[i] : i \in 1..Len(seq) }

\* cardElement.remove()
RemoveCard(shown, id) == SelectSeq(shown, LAMBDA c : c # id)

\* what happened last on the page
Event(kind, target, id, hasToken, confirmed, sent, outcome) ==
    [kind |-> kind, target |-> target, id |-> id, hasToken |-> hasToken,
     confirmed |-> confirmed, sent |-> sent, outcome |-> outcome]

\* lines 3-17: DOMContentLoaded runs loadWatchlist: the root is emptied, the
\* messages hidden; without a token the error message is shown, with one the
\* watchlist is fetched
LoadWatchlist ==
    /\ spc = "start"
    /\ cards' = <<>>
    /\ IF ~jwt
       THEN /\ msg' = "error: must be logged in"
            /\ spc' = "done"
       ELSE /\ msg' = "none"
            /\ spc' = "fetching"
    /\ ev' = Event("load", "", 0, jwt, FALSE, FALSE, "")
    /\ UNCHANGED <<jwt, stored, listening, pending, clicks, pageVars, apiVars, regVars>>

\* lines 19-79: the response of GET /api/watchlist: not ok or failed, the error
\* message; no items, the empty message; otherwise one card per item and the
\* click listener on the root, registered with { once: true }
LoadResponse ==
    /\ spc = "fetching"
    /\ \E outcome \in {"ok", "not ok", "failed"} :
        /\ IF outcome # "ok"
           THEN /\ msg' = "error"
                /\ UNCHANGED <<cards, listening>>
           ELSE IF stored = {}
           THEN /\ msg' = "empty"
                /\ UNCHANGED <<cards, listening>>
           ELSE /\ msg' = "none"
                /\ cards' = ItemsUpTo(Cardinality(stored))
                /\ listening' = TRUE
        /\ ev' = Event("loaded", "", 0, jwt, FALSE, FALSE, outcome)
    /\ spc' = "done"
    /\ UNCHANGED <<jwt, stored, pending, clicks, pageVars, apiVars, regVars>>

\* { once: true }: the listener is removed when it is invoked, whatever the
\* click was on
ListenerAfterClick(attached) == FALSE

\* lines 83-86: deleteWatchlistItem goes on to fetch only with a token and a
\* confirmed dialog
PassesChecks(hasToken, confirmed) == hasToken /\ confirmed

\* lines 66-75 and 82-94: a click inside the list, on the Remove button of a
\* card or elsewhere; confirms is what the user answers if asked
Click ==
    /\ cards # <<>>
    /\ clicks < MaxClicks
    /\ \E target \in {"button", "card"}, id \in Range(cards), confirms \in BOOLEAN :
        LET handled == listening /\ target = "button"
            sends   == handled /\ PassesChecks(jwt, confirms)
        IN  /\ listening' = IF listening THEN ListenerAfterClick(listening) ELSE FALSE
            /\ pending' = IF sends THEN pending \cup {id} ELSE pending
            /\ ev' = Event("click", target, id, jwt, confirms, sends, "")
    /\ clicks' = clicks + 1
    /\ UNCHANGED <<jwt, stored, cards, spc, msg, pageVars, apiVars, regVars>>

\* faulty variant: the card is removed whenever a response arrived, ok or not
CardsAfterResponse_anyResponse(shown, id, outcome) ==
    IF outcome # "failed" THEN RemoveCard(shown, id) ELSE shown

\* lines 96-104: a response that is not ok throws, the catch alerts; only
\* after an ok response is the card removed
CardsAfterResponse(shown, id, outcome) ==
    IF outcome = "ok" THEN RemoveCard(shown, id) ELSE shown

\* lines 88-104: the DELETE of a pending id is answered, or fails; the server
\* answers ok when it deleted the item
DeleteResponse ==
    /\ pending # {}
    /\ \E id \in pending, outcome \in {"ok", "not ok", "failed"} :
        /\ outcome = "ok" => id \in stored
        /\ stored' = IF outcome = "ok" THEN stored \ {id} ELSE stored
        /\ cards' = CardsAfterResponse(cards, id, outcome)
        /\ pending' = pending \ {id}
        /\ ev' = Event("response", "", id, jwt, TRUE, TRUE, outcome)
    /\ UNCHANGED <<jwt, listening, spc, msg, clicks, pageVars, apiVars, regVars>>

\* the token leaves localStorage (a logout elsewhere)
TokenRemoved ==
    /\ jwt
    /\ spc = "done"
    /\ jwt' = FALSE
    /\ ev' = Event("logout", "", 0, FALSE, FALSE, FALSE, "")
    /\ UNCHANGED <<stored, cards, listening, pending, spc, msg, clicks,
                   pageVars, apiVars, regVars>>

InitScript ==
    /\ op = "none"
    /\ inp = <<>>
    /\ out = <<>>
    /\ watchlist = {}
    /\ reviews = {}
    /\ nextId = 1
    /\ last = NoRequest
    /\ users = {}
    /\ reg = <<>>
    /\ jwt \in BOOLEAN
    /\ stored \in { 1..n : n \in 0..MaxCards }
    /\ cards = <<>>
    /\ listening = FALSE
    /\ pending = {}
    /\ spc = "start"
    /\ msg = "none"
    /\ ev = [kind |-> "none"]
    /\ clicks = 0

NextScript ==
    \/ LoadWatchlist
    \/ LoadResponse
    \/ Click
    \/ DeleteResponse
    \/ TokenRemoved

SpecScript == InitScript /\ [][NextScript]_vars

-----------------------------------------------------------------------------
(* Properties of the pagination range builder *)

Numbers(pages) == [i \in 1..Len(pages) |-> pages[i].number]

\* C1: for totalPages in 0..5 and currentPage in 1..totalPages, buildPagination
\* returns exactly the page numbers 1, 2, ..., totalPages in ascending order
\* (the empty sequence when totalPages is 0).
SmallTotalCoversAllPages ==
    (/\ op = "buildPagination"
     /\ inp.totalPages <= maxButtons
     /\ (inp.currentPage \in 1..inp.totalPages \/ inp.totalPages = 0))
    => Numbers(out) = [i \in 1..inp.totalPages |-> i]

\* the last of five pages is asked for: the window is cut at the end and the
\* start is shifted back to page 1
SmallTotalWitness ==
    /\ op = "buildPagination"
    /\ inp.totalPages = 5
    /\ inp.currentPage = 5
    /\ Numbers(out) = <<1, 2, 3, 4, 5>>

\* C2: for totalPages > 5 and currentPage in 1..totalPages, buildPagination
\* returns exactly 5 entries, consecutive and ascending, all within
\* 1..totalPages, one of them currentPage, and isCurrent is true on that entry
\* and on no other.
WindowOfFiveHoldsCurrent ==
    (/\ op = "buildPagination"
     /\ inp.totalPages > maxButtons
     /\ inp.currentPage \in 1..inp.totalPages)
    => /\ Len(out) = maxButtons
       /\ \A i \in 1..(Len(out) - 1) : out[i + 1].number = out[i].number + 1
       /\ \A i \in 1..Len(out) : out[i].number \in 1..inp.totalPages
       /\ \E i \in 1..Len(out) : out[i].number = inp.currentPage
       /\ \A i \in 1..Len(out) : out[i].isCurrent <=> (out[i].number = inp.currentPage)

\* the last of eight pages: the window is 4..8 and only its last entry is current
WindowOfFiveWitness ==
    /\ op = "buildPagination"
    /\ inp.totalPages = 8
    /\ inp.currentPage = 8
    /\ Numbers(out) = <<4, 5, 6, 7, 8>>
    /\ out[5].isCurrent
    /\ ~out[4].isCurrent

-----------------------------------------------------------------------------
(* Properties of the listing routes *)

\* C3: on GET /movies the page used for the store query and rendered as
\* currentPage lies in [1, totalPages] (page 1 when nothing matches): a
\* requested page <= 0 or non-numeric becomes 1, a requested page greater than
\* totalPages becomes totalPages, so the skip offset is never negative and
\* never beyond the last page.
MoviesPageWithinRange ==
    (op = "GET /movies" /\ out.status = 200)
    => /\ out.currentPage >= 1
       /\ out.skip >= 0
       /\ out.totalPages >= 1 =>
            /\ out.currentPage <= out.totalPages
            /\ out.skip < inp.count

\* C8: for every q, genre and minRating (a non-numeric minRating included) the
\* title, genre and rating conditions of GET /api/movies are those GET /movies
\* adds for the same values; the filters differ only in the poster_url condition.
ApiFilterSameAsPageFilter ==
    (op = "GET /api/movies" /\ out.status = 200)
    => LET page == PageFilter(inp.q, inp.genre, inp.minRating)
       IN  /\ out.filter.and = page.and
           /\ out.filter.hasAnd = page.hasAnd

-----------------------------------------------------------------------------
(* Properties of the card mapper *)

\* the name an array element contributes, '' when it contributes none
NameString(e) ==
    IF e.t = "string" THEN e.s
    ELSE IF e.t = "object" /\ e.nameT = "string" THEN e.name ELSE ""

NonEmptyNames(arr) ==
    SelectSeq([i \in 1..Len(arr) |-> NameString(arr[i])], LAMBDA x : x # "")

FirstThreeJoined(names) ==
    CASE Len(names) = 0 -> ""
      [] Len(names) = 1 -> names[1]
      [] Len(names) = 2 -> names[1] \o GenreSep \o names[2]
      [] OTHER          -> names[1] \o GenreSep \o names[2] \o GenreSep \o names[3]

\* C9: mapMovieForCard: when genres is an array, genresText is the first 3
\* non-empty genre names, in order, joined by the separator; when genres is a
\* string, genresText is that string unchanged; for any other value or a
\* missing genres, genresText is the empty string.
GenresTextOfCard ==
    op = "mapMovieForCard"
    => LET g == inp.genres
       IN  out.genresText =
             IF g.t = "array" THEN FirstThreeJoined(NonEmptyNames(g.a))
             ELSE IF g.t = "string" THEN g.s
             ELSE ""

\* four elements, the second contributing no name: the fourth name is taken
GenresTextWitness ==
    /\ op = "mapMovieForCard"
    /\ inp.genres = JArr(<<ElemStr("Action"), ElemNull, ElemObj("Drama"), ElemStr("Action")>>)
    /\ out.genresText = "Action . Drama . Action"

-----------------------------------------------------------------------------
(* Properties of the auth gate *)

\* C4: through auth(requiredRole) the downstream handler is invoked if and only
\* if the Authorization header carries a 'Bearer ' token that verifies and
\* requiredRole is null or equals the decoded role; otherwise exactly one
\* response is sent and the handler is not invoked: 401 when the token is
\* absent or fails verification, 403 when it verifies but the role differs.
\* Whenever the handler is invoked, req.user is the identity of that token.
AuthGateContract ==
    op = "auth"
    => LET h       == inp.header
           bearer  == h.prefix = "Bearer " /\ h.rest # EmptyToken
           good    == bearer /\ h.rest.sig = "valid"
           roleOk  == inp.requiredRole = NoRole \/ h.rest.role = inp.requiredRole
       IN  /\ out.next <=> (good /\ roleOk)
           /\ ~out.next => out.sent = 1
           /\ out.next => out.sent = 0
           /\ ~good => (out.status = 401 /\ ~out.next)
           /\ (good /\ ~roleOk) => (out.status = 403 /\ ~out.next)
           /\ out.next => out.user = [id |-> h.rest.id, role |-> h.rest.role]

\* an admin route asked with a user's valid token: 403, handler not invoked
AuthForbiddenWitness ==
    /\ op = "auth"
    /\ inp.requiredRole = "admin"
    /\ inp.header = Header("Bearer ", Token("valid", "u2", "user"))
    /\ out.status = 403
    /\ ~out.next

-----------------------------------------------------------------------------
(* Properties of the watchlist and review routes *)

ReviewMutations == { "PUT /api/reviews/:id", "DELETE /api/reviews/:id" }
WatchlistMutations == { "DELETE /api/watchlist/:id" }

\* the request of this step is an authenticated one of ops that addresses d
\* and comes from somebody else than d's owner
ByNonOwner(d, ops) ==
    /\ last'.op \in ops
    /\ last'.next
    /\ last'.id = d._id
    /\ last'.caller # d.user

\* the request of this step is an authenticated one of ops by d's owner that
\* addresses d and succeeded
ByOwner(d, ops) ==
    /\ last'.op \in ops
    /\ last'.next
    /\ last'.id = d._id
    /\ last'.caller = d.user
    /\ last'.status = 200

\* the answer to a non-owner: 404 (never 403, never a success) when the store
\* operation ran; when the query threw, the handler's error answer
NotFoundAnswer ==
    /\ last'.status \notin {200, 201, 403}
    /\ ~last'.threw => last'.status = 404

\* C5: PUT /api/reviews/:id, DELETE /api/reviews/:id and
\* DELETE /api/watchlist/:id issued by an authenticated user who is not the
\* owner of the addressed record answer 404 (never 403) and leave that record
\* unchanged in the store; a record is only ever modified or deleted by a
\* request whose authenticated user id equals the record's user field.
OnlyOwnerMutates ==
    [][ /\ \A d \in reviews :
            /\ ByNonOwner(d, ReviewMutations) => (NotFoundAnswer /\ d \in reviews')
            /\ d \notin reviews' => ByOwner(d, ReviewMutations)
        /\ \A d \in watchlist :
            /\ ByNonOwner(d, WatchlistMutations) => (NotFoundAnswer /\ d \in watchlist')
            /\ d \notin watchlist' => ByOwner(d, WatchlistMutations)
      ]_vars

\* u2 has just asked to update a review of u1: 404, the review is still there
NonOwnerPutWitness ==
    /\ last.op = "PUT /api/reviews/:id"
    /\ last.next
    /\ last.status = 404
    /\ \E d \in reviews : d._id = last.id /\ d.user # last.caller

\* C6: after a user's POST /api/watchlist succeeds (201) that user's
\* GET /api/watchlist contains the created item; after that user's
\* DELETE /api/watchlist/:id for it succeeds, their GET no longer contains it;
\* and GET /api/watchlist always returns exactly the stored items whose user
\* field is the caller's id.
WatchlistRoundTrip ==
    [][ /\ (last'.op = "GET /api/watchlist" /\ last'.status = 200)
            => last'.body = { i \in watchlist' : i.user = last'.caller }
        /\ (last'.op = "POST /api/watchlist" /\ last'.status = 201)
            => \E i \in last'.body :
                   /\ last'.body = {i}
                   /\ i.user = last'.caller
                   /\ i \in watchlist' /\ i \notin watchlist
        /\ (last'.op = "DELETE /api/watchlist/:id" /\ last'.status = 200)
            => /\ \E i \in watchlist : i._id = last'.id /\ i.user = last'.caller
               /\ \A i \in watchlist' : i._id # last'.id
        /\ (/\ last.op = "POST /api/watchlist" /\ last.status = 201
            /\ last'.op = "GET /api/watchlist" /\ last'.status = 200
            /\ last'.caller = last.caller)
            => last.body \subseteq last'.body
        /\ (/\ last.op = "DELETE /api/watchlist/:id" /\ last.status = 200
            /\ last'.op = "GET /api/watchlist" /\ last'.status = 200
            /\ last'.caller = last.caller)
            => \A i \in last'.body : i._id # last.id
      ]_vars

\* a user reads a watchlist that holds an item of theirs while the collection
\* also holds an item of somebody else
WatchlistReadWitness ==
    /\ last.op = "GET /api/watchlist"
    /\ last.status = 200
    /\ last.body # {}
    /\ \E i \in watchlist : i.user # last.caller

\* C7: in every resource handler a failure of the store operation is caught
\* and answered with the generic server-error response (status 500), with no
\* retry and no second response.
StoreFailureAnswers500 ==
    (last.op # "none" /\ last.storeFailed)
    => (last.status = 500 /\ last.sent = 1)

-----------------------------------------------------------------------------
(* Properties of registration *)

\* C10: for any interleaving of concurrent POST /auth/register requests, at
\* most one User record exists per email: a registration whose email is
\* already registered is answered 400 'User already exists' and creates no
\* record, and two concurrent registrations with the same email never both
\* create a user.
RegisterOncePerEmail ==
    /\ \A u, v \in users : u.email = v.email => u = v
    /\ \A r, q \in Requests :
          (r # q /\ reg[r].created /\ reg[q].created) => reg[r].email # reg[q].email
    /\ \A r \in Requests :
          (/\ reg[r].pc = "done"
           /\ reg[r].complete
           /\ reg[r].taken
           /\ ~reg[r].storeFailed)
          => /\ reg[r].status = 400
             /\ reg[r].error = "User already exists"
             /\ ~reg[r].created

-----------------------------------------------------------------------------
(* Properties of the watchlist page script *)

\* C11: after loadWatchlist has rendered a non-empty list, every click on a
\* displayed card's Remove button (token present, removal confirmed) sends
\* DELETE /api/watchlist/<that card's id>, no matter how many clicks, on
\* buttons or elsewhere inside the list, came before it.
RemoveClickSendsDelete ==
    (/\ ev.kind = "click"
     /\ ev.target = "button"
     /\ ev.hasToken
     /\ ev.confirmed)
    => (ev.sent /\ ev.id \in pending)

\* C12: a card is removed from the displayed list only after the DELETE
\* request for its id returned a successful response; when the token is
\* missing, the user declines the confirmation, the request fails or the
\* response is not ok, the displayed list is left unchanged.
CardRemovedOnlyAfterOk ==
    [][ /\ \A c \in Range(cards) :
            c \notin Range(cards')
            => /\ ev'.kind = "response"
               /\ ev'.outcome = "ok"
               /\ ev'.id = c
               /\ c \in pending
        /\ ev'.kind = "click" => cards' = cards
        /\ (ev'.kind = "response" /\ ev'.outcome # "ok") => cards' = cards
      ]_vars

\* the DELETE of one of two cards was answered ok: that card is gone, the
\* other is still shown
CardRemovedWitness ==
    /\ ev.kind = "response"
    /\ ev.outcome = "ok"
    /\ ev.id \notin Range(cards)
    /\ cards # <<>>

====
